---------------------------- MODULE Spec2Model ----------------------------
(***************************************************************************)
(* A model of the gravity-swarm MCP node (src/src/index.ts): the local     *)
(* task engine behind the swarm_process tool (dispatcher, processors,      *)
(* seeded generator).                                                      *)
(*                                                                         *)
(* Conventions                                                             *)
(*  - A JavaScript string is the sequence of its character codes           *)
(*    ("0" = 48, ":" = 58, "a" = 97, ...).                                 *)
(*  - A value that may be undefined is a sequence of length 0 or 1:        *)
(*    None is undefined (or an absent property), Some(v) is v.             *)
(*  - A JavaScript integer Number is a pair [hi, lo] of 16-bit halves,     *)
(*    value hi * 65536 + lo, because TLC's integers are 32 bits            *)
(*    wide and the generator's words need all 32 bits and a sign.          *)
(***************************************************************************)
EXTENDS Integers, Sequences, FiniteSets, TLC

VARIABLES
    pc,       \* where the server is: "idle", at a processor loop, "done"
    task,     \* swarm_process: the parsed task descriptor (taskData)
    answer,   \* swarm_process: the optional answer argument
    proc,     \* the processor processTask selected ("none" outside a call)
    n,        \* transform length of the spectral processors (int32)
    nonce,    \* processHashSearch: loop counter
    h,        \* processShaChain: the running digest (None: undefined)
    i,        \* loop counter of processShaChain / processMonteCarlo
    inside,   \* processMonteCarlo: points counted inside the unit circle
    rng,      \* the generator closure of the running processor: [s0, s1]
    reply,    \* what the tool call answered (or that it threw)
    gens,     \* generators constructed apart from any task (closures s0, s1)
    seen,     \* history: the (task, answer, reply) of the calls observed
    identityFile,  \* ~/.gravity-swarm/identity.json: None, or Some(Identity)
    pending,  \* swarm_enlist handlers waiting for the /enlist response
    wire      \* what the latest identity tool step signed, sent and answered

\* the variables of the identity tools
idvars == <<identityFile, pending, wire>>

vars == <<pc, task, answer, proc, n, nonce, h, i, inside, rng, reply, gens,
          seen, identityFile, pending, wire>>

---------------------------------------------------------------------------
(* Bounds of the model *)

\* The hash-search loop tries nonce = 0 .. NonceCeiling. The source's ceiling
\* is 500000 (index.ts line 224); the model scales it down.
NonceCeiling == 5

\* The SHA chain applies at most RoundCap rounds. The source's cap is 10000
\* (index.ts line 169); the model scales it down.
RoundCap == 3

\* Largest shard_size given to a loop that runs shard_size times.
MaxLoopShard == 3

\* Steps taken on a generator constructed apart from a task.
MaxGenSteps == 2

\* Steps taken on a generator whose output sequence is compared with the
\* recurrence over unsigned words.
MaxRngSteps == 4

\* swarm_enlist handlers that may wait for their response at the same time.
MaxPending == 2

---------------------------------------------------------------------------
(* Optional values and small helpers *)

None == <<>>

Some(v) == <<v>>

Min(a, b) == IF a < b THEN a ELSE b

Max(a, b) == IF a > b THEN a ELSE b

\* the element of a one-element set. {e : x \in {v}} computes v once and
\* binds x to its value, where LET would compute v at every use of x.
The(S) == CHOOSE r \in S : TRUE

\* String.prototype.substring(0, k) for 0 <= k
Substring0(s, k) == SubSeq(s, 1, Min(k, Len(s)))

\* String.prototype.startsWith
StartsWith(s, p) == Len(p) <= Len(s) /\ SubSeq(s, 1, Len(p)) = p

RECURSIVE ToDecimal(_)
\* String(k) for an integer k >= 0
ToDecimal(k) == IF k < 10 THEN <<48 + k>>
                ELSE ToDecimal(k \div 10) \o <<48 + (k % 10)>>

\* String literals of the source
NOTFOUND == <<78, 79, 84, 70, 79, 85, 78, 68>>

INVALID_ == <<73, 78, 86, 65, 76, 73, 68, 58>>            \* "INVALID:"

VALID == <<118, 97, 108, 105, 100>>                        \* "valid"

INVALID == <<105, 110, 118, 97, 108, 105, 100>>            \* "invalid"

NAN == <<78, 97, 78>>                                      \* "NaN"

ZERO == <<48>>                                             \* "0"

PERIODIC == <<80, 69, 82, 73, 79, 68, 73, 67>>

QUASI_PERIODIC == <<81, 85, 65, 83, 73, 95>> \o PERIODIC

STRUCTURED_NOISE == <<83, 84, 82, 85, 67, 84, 85, 82, 69, 68, 95, 78, 79, 73, 83, 69>>

WHITE_NOISE == <<87, 72, 73, 84, 69, 95, 78, 79, 73, 83, 69>>

---------------------------------------------------------------------------
(* sha256hex *)

\* SHA-256 itself is out of reach of TLC. sha256hex is modelled by a
\* small digest with the same shape: a deterministic function of the whole
\* input string, rendered as a fixed-length string of hex characters (here
\* DigestLen characters, each "0" or "1"; the source's digest has 64).
DigestLen == 6

\* one character absorbed: a cubic permutation of the residues modulo 71
Mix(acc, c) == (((acc + c + 11) % 71) ^ 3) % 71

RECURSIVE Absorb(_, _)
Absorb(acc, data) == IF data = <<>> THEN acc
                     ELSE Absorb(Mix(acc, Head(data)), Tail(data))

RECURSIVE HexDigits(_, _)
HexDigits(v, k) == IF k = 0 THEN <<>>
                   ELSE <<48 + (v % 2)>> \o HexDigits(v \div 2, k - 1)

sha256hex(data) ==
    The({HexDigits(Absorb(5, d) % (2^DigestLen), DigestLen) : d \in {data}})


---------------------------------------------------------------------------
(* JavaScript integer Numbers and the 32-bit operators *)

W16 == 256 * 256

\* The Number hi * 65536 + lo
Num(hi, lo) == [hi |-> hi, lo |-> lo]

\* ToUint32 (the operand conversion of >>>, and x >>> 0)
ToUint32(x) == Num(x.hi % W16, x.lo)

\* ToInt32 (the operand and result conversion of <<, ^)
ToInt32(x) == LET u == x.hi % W16
              IN  Num(IF u >= 32768 THEN u - W16 ELSE u, x.lo)

RECURSIVE Xor16(_, _, _)
\* bitwise exclusive or of the low k bits of a and b
Xor16(a, b, k) == IF k = 0 THEN 0
                  ELSE ((a + b) % 2) + 2 * Xor16(a \div 2, b \div 2, k - 1)

\* x ^ y : both operands ToInt32, the result an int32
BitXor(x, y) ==
    The({ToInt32(Num(Xor16(a.hi, b.hi, 16), Xor16(a.lo, b.lo, 16))) :
            a \in {ToUint32(x)}, b \in {ToUint32(y)}})

\* x << 23 : bits 0..8 of x move to bits 23..31, the result an int32
Shl23(x) == ToInt32(Num((x.lo * 128) % W16, 0))

\* a sign-propagating shift: x >> 17
Shr17_Arithmetic(x) ==
    The({Num(IF q < 0 THEN -1 ELSE 0, q % W16) : q \in {ToInt32(x).hi \div 2}})

\* x >>> 17 : the operand ToUint32, the result a uint32
Shr17(x) == Num(0, ToUint32(x).hi \div 2)

\* x >>> 26
Shr26(x) == Num(0, ToUint32(x).hi \div 1024)

\* x + y on Numbers (exact: the sums stay far below 2^53)
NumAdd(x, y) == LET s == x.lo + y.lo
                IN  Num(x.hi + y.hi + (s \div W16), s % W16)

\* (s * m + code) >>> 0 for a uint32 s, a small multiplier m and a char code
MulAdd32(s, m, code) == LET l == s.lo * m + code
                        IN  Num((s.hi * m + (l \div W16)) % W16, l % W16)

---------------------------------------------------------------------------
(* Seeded PRNG (xorshift128+) *)

RECURSIVE FoldSeed(_, _, _)
\* the seeding loop: s = (s * m + seed.charCodeAt(i)) >>> 0, left to right
FoldSeed(s, m, seed) == IF seed = <<>> THEN s
                        ELSE FoldSeed(MulAdd32(s, m, Head(seed)), m, Tail(seed))

NonZero(s) == IF s = Num(0, 0) THEN Num(0, 1) ELSE s

\* xorshift128plus(seed): the state of the closure it returns
xorshift128plus(seed) == [s0 |-> NonZero(FoldSeed(Num(0, 0), 31, seed)),
                          s1 |-> NonZero(FoldSeed(Num(0, 0), 37, seed))]

\* one call of the closure: the state it leaves
RngStep(g) ==
    The({LET x1 == BitXor(st.s0, Shl23(st.s0))
             x2 == BitXor(x1, Shr17(x1))
             x3 == BitXor(x2, st.s1)
             x4 == BitXor(x3, Shr26(st.s1))
         IN  [s0 |-> st.s1, s1 |-> x4] : st \in {g}})

\* the value that call returns, (s0 + s1) >>> 0, from the state it leaves
RngOut(g) == ToUint32(NumAdd(g.s0, g.s1))

---------------------------------------------------------------------------
(* The floating-point pipeline (generateData, fft, magnitudes, toFixed) *)

\* IEEE-754 arithmetic is outside TLC. What the model keeps of the
\* pipeline is what the code's control flow fixes: its result is a
\* deterministic function of (seed, n) alone, and the label's range is limited
\* by the number of bins scanned (n/2 - 1 bins cannot give a peak-to-average
\* ratio above n/2 - 1; for n <= 4 the ratio is 1 or NaN: WHITE_NOISE).

\* the comma-joined magnitudes of processFFT, as a stand-in text
MagText(seed, len) == <<109>> \o ToDecimal(len) \o <<58>> \o seed

\* stddev.toFixed(10) of processSimulation, as a stand-in text
StdText(seed, len) == <<115>> \o ToDecimal(len) \o <<58>> \o seed

Labels == <<WHITE_NOISE, STRUCTURED_NOISE, QUASI_PERIODIC, PERIODIC>>

\* the label of processSignalClassify
Classify(seed, len) ==
    LET top == IF len >= 32 THEN 3 ELSE IF len >= 16 THEN 2
               ELSE IF len >= 8 THEN 1 ELSE 0
        r   == Absorb(len % 64, seed) % 4
    IN  Labels[1 + Min(r, top)]

\* x * x + y * y < 1.0 with x = rx / 2^32, y = ry / 2^32, decided on the 15
\* leading bits of each draw (the exact comparison needs 64-bit products)
InsideCircle(rx, ry) ==
    LET a == rx.hi \div 2
        b == ry.hi \div 2
    IN  a * a + b * b < 2^30

\* the remainder r * 10^k mod den left after k <= 10 decimals of r / den
FracRem(r, den, k) ==
    IF k <= 9 THEN (r * ((10^k) % den)) % den
    ELSE (r * ((((10^9) % den) * (10^(k - 9))) % den)) % den

\* the first k decimals of r / den (0 <= r < den), and the remainder left
Fraction(r, den, k) ==
    [digits |-> [j \in 1..k |-> (FracRem(r, den, j - 1) * 10) \div den],
     rem |-> FracRem(r, den, k)]

\* the last place of a digit sequence that is not a 9 (0: there is none)
LastBelowNine(ds) ==
    IF \A k \in 1..Len(ds) : ds[k] = 9 THEN 0
    ELSE CHOOSE k \in 1..Len(ds) :
            ds[k] < 9 /\ \A m \in (k + 1)..Len(ds) : ds[m] = 9

\* a digit sequence plus one in its last place; carry: it overflowed
Increment(ds) ==
    The({[digits |-> [k \in 1..Len(ds) |->
                        IF k < j THEN ds[k]
                        ELSE IF k = j THEN ds[k] + 1 ELSE 0],
          carry |-> j = 0] : j \in {LastBelowNine(ds)}})

\* (num / den).toFixed(10) for integers num >= 0, den >= 0: "NaN" for 0/0,
\* else the quotient rounded to 10 decimals (exact for the small den used)
ToFixed10(num, den) ==
    IF den = 0 THEN NAN
    ELSE The({The({ToDecimal((num \div den) + (IF u.carry THEN 1 ELSE 0))
                      \o <<46>> \o [k \in 1..10 |-> 48 + u.digits[k]] :
                   u \in {IF 2 * f.rem >= den THEN Increment(f.digits)
                          ELSE [digits |-> f.digits, carry |-> FALSE]}}) :
              f \in {Fraction(num % den, den, 10)}})

---------------------------------------------------------------------------
(* Tool answers *)

Reply(kind, hash, value) ==
    [kind |-> kind, output_hash |-> hash, output_value |-> value]

NoReply == Reply("none", None, None)

\* a JSON text with output_hash / output_value (undefined ones are None)
Result(hash, value) == Reply("result", hash, value)

\* the handler threw (a TypeError of the runtime)
Thrown == Reply("throw", None, None)

\* the text "Invalid task JSON."
InvalidJson == Reply("invalid_json", None, None)

\* a text asking for the answer argument
AskAnswer == Reply("ask_answer", None, None)

---------------------------------------------------------------------------
(* Task processors (the parts without loops) *)

\* Math.floor(Math.log2(x)) for an integer x >= 1
RECURSIVE FloorLog2(_)
FloorLog2(x) == IF x < 2 THEN 0 ELSE 1 + FloorLog2(x \div 2)

\* a prefix length without its lower clamp
SearchPrefixLen_NoFloor(shardSize) == Min(FloorLog2(shardSize + 1) \div 4, 5)

\* processHashSearch: prefixLen
SearchPrefixLen(shardSize) ==
    Min(Max(2, FloorLog2(shardSize + 1) \div 4), 5)

\* processHashSearch: prefix
SearchPrefix(seed, shardSize) ==
    Substring0(sha256hex(seed), SearchPrefixLen(shardSize))

\* a loop that stops one short: nonce < ceiling
SearchContinues_Exclusive(k) == k < NonceCeiling

\* processHashSearch: the loop condition nonce <= 500000
SearchContinues(k) == k <= NonceCeiling

\* processHashSearch: h of one iteration
SearchHash(seed, k) == sha256hex(seed \o <<58>> \o ToDecimal(k))

\* a prefix length without its upper clamp
VerifyPrefixLen_NoCap(shardSize) == Max(2, FloorLog2(shardSize + 1) \div 4)

\* verifyCandidate: prefixLen
VerifyPrefixLen(shardSize) ==
    Min(Max(2, FloorLog2(shardSize + 1) \div 4), 5)

\* verifyCandidate (candidate is a string; seed may be undefined)
verifyCandidate(seed, shardSize, candidate) ==
    IF seed = None THEN Thrown
    ELSE LET prefix == Substring0(sha256hex(seed[1]), VerifyPrefixLen(shardSize))
         IN  IF candidate # <<>> /\ StartsWith(candidate, prefix)
             THEN Result(Some(sha256hex(candidate)), Some(VALID))
             ELSE Result(Some(sha256hex(INVALID_ \o candidate)), Some(INVALID))

\* a chain that runs one round more: i <= rounds
ChainRounds_OneMore(shardSize) == Min(shardSize, RoundCap) + 1

\* processShaChain: rounds
ChainRounds(shardSize) == Min(shardSize, RoundCap)

\* n <<= 1 on an int32
Shl1(k) == IF k >= 2^30 THEN (k - 2^30 - 2^30) * 2
           ELSE IF k < -(2^30) THEN (k + 2^30 + 2^30) * 2
           ELSE k * 2

\* processFFT after the length loop
processFFT(seed, len) ==
    IF seed = None THEN Thrown
    ELSE Result(Some(sha256hex(MagText(seed[1], len))), None)

\* processSimulation after the length loop
processSimulation(seed, len) ==
    IF seed = None THEN Thrown
    ELSE LET valueStr == StdText(seed[1], len)
         IN  Result(Some(sha256hex(valueStr)), Some(valueStr))

\* processSignalClassify after the length loop
processSignalClassify(seed, len) ==
    IF seed = None THEN Thrown
    ELSE LET classification == Classify(seed[1], len)
         IN  Result(Some(sha256hex(classification)), Some(classification))

RECURSIVE LastMatch(_, _, _)
\* a scan without its break: the last matching index wins
LastMatch(items, label, k) ==
    IF k > Len(items) THEN 0
    ELSE LET later == LastMatch(items, label, k + 1)
         IN  IF later # 0 THEN later
             ELSE IF items[k] # None /\ items[k][1].output_value = Some(label)
                  THEN k - 1
             ELSE 0

\* judgeResponses: the scan for bestIdx (responses an array without null
\* elements): the first index whose output_value is the own label, else 0
RECURSIVE FirstMatch(_, _, _)
FirstMatch(items, label, k) ==
    IF k > Len(items) THEN 0
    ELSE IF items[k][1].output_value = Some(label) THEN k - 1
    ELSE FirstMatch(items, label, k + 1)

\* does the scan read a property of a null element before it stops?
RECURSIVE ScanHitsNull(_, _, _)
ScanHitsNull(items, label, k) ==
    IF k > Len(items) THEN FALSE
    ELSE IF items[k] = None THEN TRUE
    ELSE IF items[k][1].output_value = Some(label) THEN FALSE
    ELSE ScanHitsNull(items, label, k + 1)

\* judgeResponses after the length loop of its processSignalClassify call;
\* responses is truthy: [arr |-> is it an array, items |-> its elements]
judgeResponses(seed, len, responses) ==
    LET own == processSignalClassify(seed, len)
    IN  IF own.kind = "throw" THEN Thrown
        ELSE IF responses.arr /\ responses.items = <<>>
             THEN Result(own.output_hash, Some(ZERO))
        ELSE IF ~responses.arr THEN Thrown   \* responses[0] is undefined
        ELSE IF ScanHitsNull(responses.items, own.output_value[1], 1) THEN Thrown
        ELSE LET bestIdx == FirstMatch(responses.items, own.output_value[1], 1)
             IN  Result(Some(responses.items[bestIdx + 1][1].output_hash),
                        Some(ToDecimal(bestIdx)))

---------------------------------------------------------------------------
(* Task dispatcher *)

\* a truthy optional string: present and not ""
Truthy(opt) == opt # None /\ opt[1] # <<>>

\* a rule chain that tests task_type before consensus_mode
processTask_TypeFirst(t) ==
    IF t.task_type = "fft" \/ t.task_type = "spectral" THEN "FFT"
    ELSE IF t.task_type = "monte_carlo" THEN "MonteCarlo"
    ELSE IF t.task_type = "sha_chain" THEN "ShaChain"
    ELSE IF t.consensus_mode = "verify" /\ t.phase = "search" THEN "HashSearch"
    ELSE IF t.consensus_mode = "verify" /\ t.phase = "verify"
            /\ Truthy(t.candidate) THEN "VerifyCandidate"
    ELSE IF t.consensus_mode = "vote" /\ t.phase = "produce" THEN "SignalClassify"
    ELSE IF t.consensus_mode = "vote" /\ t.phase = "judge"
            /\ t.responses # None THEN "JudgeResponses"
    ELSE IF t.consensus_mode = "numeric_tolerance" THEN "Simulation"
    ELSE "ShaChain"

\* processTask: the processor its rule chain selects
processTask(t) ==
    IF t.consensus_mode = "verify" /\ t.phase = "search" THEN "HashSearch"
    ELSE IF t.consensus_mode = "verify" /\ t.phase = "verify"
            /\ Truthy(t.candidate) THEN "VerifyCandidate"
    ELSE IF t.consensus_mode = "vote" /\ t.phase = "produce" THEN "SignalClassify"
    ELSE IF t.consensus_mode = "vote" /\ t.phase = "judge"
            /\ t.responses # None THEN "JudgeResponses"
    ELSE IF t.consensus_mode = "numeric_tolerance" THEN "Simulation"
    ELSE IF t.task_type = "fft" \/ t.task_type = "spectral" THEN "FFT"
    ELSE IF t.task_type = "monte_carlo" THEN "MonteCarlo"
    ELSE IF t.task_type = "sha_chain" THEN "ShaChain"
    ELSE "ShaChain"

\* the processors that start with the loop n = 1; while (n < shardSize) n <<= 1
UsesLength(p) == p \in {"FFT", "Simulation", "SignalClassify", "JudgeResponses"}

---------------------------------------------------------------------------
(* Inputs *)

\* a parsed task descriptor. json: "invalid" (the text does not parse),
\* "null" (it parses to null) or "object"
Task(json, type, seed, shard, mode, phase, cand, resp) ==
    [json |-> json, task_type |-> type, seed |-> seed, shard_size |-> shard,
     consensus_mode |-> mode, phase |-> phase, candidate |-> cand,
     responses |-> resp]

Modes == {"verify", "vote", "numeric_tolerance", "review", "other"}

Phases == {"search", "verify", "produce", "judge", "review", "other"}

Types == {"fft", "spectral", "monte_carlo", "sha_chain", "other"}

\* "a", "ab", "l", "s", "t1"
Seeds == {<<97>>, <<97, 98>>, <<108>>, <<115>>, <<116, 49>>}

\* shard sizes around the thresholds of prefixLen (16^3, 16^4, 16^5)
PrefixSizes == {0, 16, 4094, 4095, 65534, 65535, 1048574, 1048575, 2^24}

\* shard sizes for the length loop: the spec's examples and the int32 edge
LengthSizes == {0, 1, 2, 3, 5, 8, 9, 16, 33, 8192, 8193, 2^30, 2^30 + 1}

\* candidates: "", "0", the 2- and DigestLen-character digests' strings
Candidates == {<<>>, <<48>>, NOTFOUND} \cup [1..2 -> {48, 49}]
              \cup [1..DigestLen -> {48, 49}]

Response(hash, value) == Some([output_hash |-> hash, output_value |-> value])

Arr(items) == Some([arr |-> TRUE, items |-> items])

\* a truthy value that is no array (a number)
NotArr == Some([arr |-> FALSE, items |-> <<>>])

RespItems == {Response(<<49>>, Some(l)) :
                  l \in {WHITE_NOISE, STRUCTURED_NOISE, QUASI_PERIODIC, PERIODIC}}
             \cup {Response(<<50>>, None), None}

\* the response arrays of length <= 2, with distinguishable hashes by index
RespArrays == {<<>>} \cup {<<a>> : a \in RespItems}
              \cup {<<a, IF b = None THEN None
                         ELSE Response(<<51>>, b[1].output_value)>> :
                        a \in RespItems, b \in RespItems}

Answers == {None, Some(<<>>), Some(<<104, 105>>),
            Some(<<97, 110, 115, 119, 101, 114, 32, 116, 101, 110>>)}

\* every combination of the fields the rule chain reads
RouteInputs ==
    {Task("object", ty, Some(<<97>>), 2, m, ph, c, r) :
        ty \in Types, m \in Modes \ {"review"}, ph \in Phases,
        c \in {None, Some(<<>>), Some(<<48, 48>>)},
        r \in {None, Arr(<<>>), Arr(<<Response(<<49>>, Some(WHITE_NOISE))>>)}}

ReviewInputs ==
    {Task("object", ty, Some(<<97>>), 2, "review", ph, None, r) :
        ty \in Types, ph \in Phases,
        r \in {None, Arr(<<Response(<<49>>, Some(<<104, 105>>))>>)}}

SearchInputs ==
    {Task("object", "monte_carlo", Some(s), k, "verify", "search", None, None) :
        s \in Seeds, k \in PrefixSizes}

VerifyInputs ==
    {Task("object", "other", Some(s), k, "verify", "verify", Some(c), None) :
        s \in Seeds, k \in PrefixSizes, c \in Candidates}

LengthInputs ==
    {Task("object", ty, Some(s), k, m, "produce", None, None) :
        ty \in {"fft", "other"}, m \in {"vote", "numeric_tolerance", "other"},
        s \in Seeds, k \in LengthSizes}

JudgeInputs ==
    {Task("object", "other", Some(s), k, "vote", "judge", None, r) :
        s \in Seeds, k \in {2, 8, 16, 33},
        r \in {Arr(a) : a \in RespArrays} \cup {NotArr}}

ChainInputs ==
    {Task("object", ty, Some(s), k, "other", "other", None, None) :
        ty \in {"sha_chain", "other"}, s \in Seeds, k \in 0..(RoundCap + 2)}

MonteCarloInputs ==
    {Task("object", "monte_carlo", Some(s), k, "other", "other", None, None) :
        s \in Seeds, k \in 0..MaxLoopShard}

\* descriptors that do not parse, parse to null, or lack their seed
MalformedInputs ==
    {Task(j, "other", None, 0, "other", "other", None, None) :
        j \in {"invalid", "null"}}
    \cup {Task("object", ty, None, k, m, ph, Some(<<48, 48>>), Arr(<<>>)) :
            ty \in {"fft", "monte_carlo", "sha_chain"}, k \in {0, 2},
            m \in {"verify", "vote", "numeric_tolerance", "other"},
            ph \in {"search", "verify", "produce", "judge"}}

TaskInputs == RouteInputs \cup SearchInputs \cup VerifyInputs \cup LengthInputs
              \cup JudgeInputs \cup ChainInputs \cup MonteCarloInputs
              \cup MalformedInputs

\* the (task, answer) pairs of swarm_process calls
CallInputs == {<<t, None>> : t \in TaskInputs}
              \cup {<<t, a>> : t \in ReviewInputs, a \in Answers}

---------------------------------------------------------------------------
(* State *)

NoTask == Task("none", "other", None, 0, "other", "other", None, None)

NoRng == [s0 |-> Num(0, 0), s1 |-> Num(0, 0)]

\* the locals of a call that has set none of them
Frame == [pc |-> "done", n |-> 0, nonce |-> 0, h |-> None, i |-> 0,
          inside |-> 0, rng |-> NoRng, reply |-> NoReply]

NoGen == [seed |-> None, st |-> NoRng, count |-> 0, out |-> Num(0, 0)]

GenIds == 1..2

\* what an identity tool step did: the tool, whether it signed an event, the
\* coordinator path it requested (None: no request), and its answer
\* ok: the step handled a coordinator response whose ok was true
Wire(tool, signed, request, text, ok) ==
    [tool |-> tool, signed |-> signed, request |-> request, text |-> text,
     ok |-> ok]

NoWire == Wire("none", FALSE, None, "none", FALSE)

GenSeeds == {<<97>>, <<97, 98>>}

Init ==
    /\ pc = "idle"
    /\ task = NoTask
    /\ answer = None
    /\ proc = "none"
    /\ n = 0
    /\ nonce = 0
    /\ h = None
    /\ i = 0
    /\ inside = 0
    /\ rng = NoRng
    /\ reply = NoReply
    /\ gens = [g \in GenIds |-> NoGen]
    /\ seen = {}
    /\ identityFile = None
    /\ pending = {}
    /\ wire = NoWire

---------------------------------------------------------------------------
(* swarm_process *)

\* the responseSummary of the review prompt reads every response's
\* output_value: it throws on a value without map and on a null element
SummaryThrows(responses) ==
    /\ responses # None
    /\ \/ ~responses[1].arr
       \/ \E k \in 1..Len(responses[1].items) : responses[1].items[k] = None

\* the handler up to its call of processTask: the answer it returns before
\* that call, or NoReply when it goes on to processTask
Preamble(t, a) ==
    IF t.json = "invalid" THEN InvalidJson
    ELSE IF t.json = "null" THEN Thrown       \* taskData.consensus_mode of null
    ELSE IF t.consensus_mode = "review" /\ t.phase = "produce"
         THEN IF ~Truthy(a) \/ Len(a[1]) < 10 THEN AskAnswer
              ELSE Result(Some(sha256hex(a[1])), a)
    ELSE IF t.consensus_mode = "review" /\ t.phase = "review"
         THEN IF ~Truthy(a)
              THEN IF SummaryThrows(t.responses) THEN Thrown ELSE AskAnswer
              ELSE Result(Some(sha256hex(a[1])), a)
    ELSE NoReply

\* processTask's call of the selected processor, up to its first loop
Enter(t, p) ==
    CASE p = "HashSearch" ->
           IF t.seed = None THEN [Frame EXCEPT !.reply = Thrown]
           ELSE [Frame EXCEPT !.pc = "search"]
      [] p = "VerifyCandidate" ->
           [Frame EXCEPT !.reply =
                verifyCandidate(t.seed, t.shard_size, t.candidate[1])]
      [] UsesLength(p) -> [Frame EXCEPT !.pc = "length", !.n = 1]
      [] p = "MonteCarlo" ->
           IF t.seed = None THEN [Frame EXCEPT !.reply = Thrown]
           ELSE [Frame EXCEPT !.pc = "mc", !.rng = xorshift128plus(t.seed[1])]
      [] p = "ShaChain" -> [Frame EXCEPT !.pc = "chain", !.h = t.seed]

SetFrame(f) ==
    /\ pc' = f.pc
    /\ n' = f.n
    /\ nonce' = f.nonce
    /\ h' = f.h
    /\ i' = f.i
    /\ inside' = f.inside
    /\ rng' = f.rng
    /\ reply' = f.reply

\* a call of the swarm_process tool with an input of the given set
Call(inputs) ==
    /\ pc = "idle"
    /\ \E c \in inputs :
         LET t   == c[1]
             a   == c[2]
             pre == Preamble(t, a)
         IN  /\ task' = t
             /\ answer' = a
             /\ IF pre # NoReply
                THEN proc' = "none" /\ SetFrame([Frame EXCEPT !.reply = pre])
                ELSE proc' = processTask(t) /\ SetFrame(Enter(t, processTask(t)))
    /\ UNCHANGED <<gens, seen, idvars>>

\* while (n < shardSize) ... : the condition holds, control enters the body
LengthTest ==
    /\ pc = "length"
    /\ n < task.shard_size
    /\ pc' = "shift"
    /\ UNCHANGED <<task, answer, proc, n, nonce, h, i, inside, rng, reply, gens, seen, idvars>>

\* the body n <<= 1, and back to the condition
LengthShift ==
    /\ pc = "shift"
    /\ n' = Shl1(n)
    /\ pc' = "length"
    /\ UNCHANGED <<task, answer, proc, nonce, h, i, inside, rng, reply, gens, seen, idvars>>

\* the rest of the processor once the length loop exits
LengthExit ==
    /\ pc = "length"
    /\ ~(n < task.shard_size)
    /\ reply' = CASE proc = "FFT" -> processFFT(task.seed, n)
                  [] proc = "Simulation" -> processSimulation(task.seed, n)
                  [] proc = "SignalClassify" -> processSignalClassify(task.seed, n)
                  [] proc = "JudgeResponses" ->
                       judgeResponses(task.seed, n, task.responses[1])
    /\ pc' = "done"
    /\ UNCHANGED <<task, answer, proc, n, nonce, h, i, inside, rng, gens, seen, idvars>>

\* one iteration of the hash-search loop
SearchTry ==
    /\ pc = "search"
    /\ SearchContinues(nonce)
    /\ LET hh == SearchHash(task.seed[1], nonce)
       IN  IF StartsWith(hh, SearchPrefix(task.seed[1], task.shard_size))
           THEN /\ reply' = Result(Some(sha256hex(hh)), Some(hh))
                /\ pc' = "done"
                /\ nonce' = nonce
           ELSE /\ nonce' = nonce + 1
                /\ UNCHANGED <<pc, reply>>
    /\ UNCHANGED <<task, answer, proc, n, h, i, inside, rng, gens, seen, idvars>>

\* the hash-search loop ran out of nonces
SearchExhausted ==
    /\ pc = "search"
    /\ ~SearchContinues(nonce)
    /\ reply' = Result(Some(sha256hex(NOTFOUND)), Some(NOTFOUND))
    /\ pc' = "done"
    /\ UNCHANGED <<task, answer, proc, n, nonce, h, i, inside, rng, gens, seen, idvars>>

\* one round of the SHA chain (sha256hex throws on an undefined seed)
ChainStep ==
    /\ pc = "chain"
    /\ i < ChainRounds(task.shard_size)
    /\ IF h = None
       THEN reply' = Thrown /\ pc' = "done" /\ UNCHANGED <<h, i>>
       ELSE h' = Some(sha256hex(h[1])) /\ i' = i + 1 /\ UNCHANGED <<pc, reply>>
    /\ UNCHANGED <<task, answer, proc, n, nonce, inside, rng, gens, seen, idvars>>

ChainExit ==
    /\ pc = "chain"
    /\ ~(i < ChainRounds(task.shard_size))
    /\ reply' = Result(h, None)
    /\ pc' = "done"
    /\ UNCHANGED <<task, answer, proc, n, nonce, h, i, inside, rng, gens, seen, idvars>>

\* one iteration of the Monte Carlo loop: two draws, x then y
MonteCarloStep ==
    /\ pc = "mc"
    /\ i < task.shard_size
    /\ \E g1 \in {RngStep(rng)} :
         \E g2 \in {RngStep(g1)} :
            /\ rng' = g2
            /\ inside' = IF InsideCircle(RngOut(g1), RngOut(g2))
                         THEN inside + 1 ELSE inside
    /\ i' = i + 1
    /\ UNCHANGED <<pc, task, answer, proc, n, nonce, h, reply, gens, seen, idvars>>

\* result = ((4.0 * inside) / shardSize).toFixed(10)
MonteCarloExit ==
    /\ pc = "mc"
    /\ ~(i < task.shard_size)
    /\ reply' = Result(Some(sha256hex(ToFixed10(4 * inside, task.shard_size))), None)
    /\ pc' = "done"
    /\ UNCHANGED <<task, answer, proc, n, nonce, h, i, inside, rng, gens, seen, idvars>>

\* the handler returns (or its exception reaches the caller): the call's
\* locals are gone
PopFrame ==
    /\ pc = "done"
    /\ pc' = "idle"
    /\ task' = NoTask
    /\ answer' = None
    /\ proc' = "none"
    /\ n' = 0
    /\ nonce' = 0
    /\ h' = None
    /\ i' = 0
    /\ inside' = 0
    /\ rng' = NoRng
    /\ reply' = NoReply

Return == PopFrame /\ UNCHANGED <<gens, seen, idvars>>

\* the same return, with the call entered in the history
ReturnObserved ==
    /\ PopFrame
    /\ seen' = seen \cup {[task |-> task, answer |-> answer, reply |-> reply]}
    /\ UNCHANGED <<gens, idvars>>

\* the steps of a running processor
Compute == \/ LengthTest
           \/ LengthShift
           \/ LengthExit
           \/ SearchTry
           \/ SearchExhausted
           \/ ChainStep
           \/ ChainExit
           \/ MonteCarloStep
           \/ MonteCarloExit

Step == Compute \/ Return

CallAny == Call(CallInputs)

Next == CallAny \/ Step

Spec == Init /\ [][Next]_vars

\* a running handler keeps running: the runtime executes it to its end
FairSpec == Spec /\ WF_vars(Step)

---------------------------------------------------------------------------
(* Generators constructed apart from a task *)

\* xorshift128plus(seed) called for generator slot g
GenNew(g) ==
    /\ gens[g].seed = None
    /\ \E s \in GenSeeds :
         gens' = [gens EXCEPT ![g] = [seed |-> Some(s), st |-> xorshift128plus(s),
                                      count |-> 0, out |-> Num(0, 0)]]
    /\ UNCHANGED <<pc, task, answer, proc, n, nonce, h, i, inside, rng, reply, seen, idvars>>

\* state words shared by every closure (module-level s0, s1)
Closure_Shared(g) == gens[1].st

\* the s0, s1 a closure reads: those of its own construction
Closure(g) == gens[g].st

\* one call of the closure of slot g
GenStep(g) ==
    /\ gens[g].seed # None
    /\ gens[g].count < MaxGenSteps
    /\ LET st == RngStep(Closure(g))
       IN  gens' = [gens EXCEPT ![g] = [seed |-> @.seed, st |-> st,
                                        count |-> @.count + 1, out |-> RngOut(st)]]
    /\ UNCHANGED <<pc, task, answer, proc, n, nonce, h, i, inside, rng, reply, seen, idvars>>

GenConstruct == \E g \in GenIds : GenNew(g)

GenCall == \E g \in GenIds : GenStep(g)

\* a few tasks through every processor, for runs interleaved with generators
FewInputs ==
    {<<t, None>> :
        t \in {Task("object", "other", Some(<<97>>), 65535, "verify", "search", None, None),
               Task("object", "fft", Some(<<97, 98>>), 3, "other", "other", None, None),
               Task("object", "sha_chain", Some(<<97>>), 2, "other", "other", None, None),
               Task("object", "monte_carlo", Some(<<97>>), 2, "other", "other", None, None)}}

CallFew == Call(FewInputs)

NextGen == CallFew \/ Compute \/ ReturnObserved \/ GenConstruct \/ GenCall

\* tool calls in any order, interleaved with steps of separate generators
SpecGen == Init /\ [][NextGen]_vars

---------------------------------------------------------------------------
(* One generator over many seeds *)

\* seeds: "", every string of one or two of the code units 0, "1", "a",
\* "z", 0xFFFF, and two long ones ("zzzzzzzz", "test-seed-123")
RngSeeds ==
    {<<>>} \cup [1..1 -> {0, 49, 97, 122, 65535}]
    \cup [1..2 -> {0, 49, 97, 122, 65535}]
    \cup {<<122, 122, 122, 122, 122, 122, 122, 122>>,
          <<116, 101, 115, 116, 45, 115, 101, 101, 100, 45, 49, 50, 51>>}

\* xorshift128plus(seed) for one of these seeds
RngNew ==
    /\ gens[1].seed = None
    /\ \E s \in RngSeeds :
         gens' = [gens EXCEPT ![1] = [seed |-> Some(s), st |-> xorshift128plus(s),
                                      count |-> 0, out |-> Num(0, 0)]]
    /\ UNCHANGED <<pc, task, answer, proc, n, nonce, h, i, inside, rng, reply, seen, idvars>>

\* one call of that generator's closure
RngCall ==
    /\ gens[1].seed # None
    /\ gens[1].count < MaxRngSteps
    /\ \E st \in {RngStep(gens[1].st)} :
         gens' = [gens EXCEPT ![1] = [seed |-> @.seed, st |-> st,
                                      count |-> @.count + 1, out |-> RngOut(st)]]
    /\ UNCHANGED <<pc, task, answer, proc, n, nonce, h, i, inside, rng, reply, seen, idvars>>

NextRng == RngNew \/ RngCall

SpecRng == Init /\ [][NextRng]_vars

---------------------------------------------------------------------------
(* A search followed by the verification of what it returned *)

SearchCalls == {<<t, None>> : t \in SearchInputs}

\* the verify-phase tasks built from the search result the caller holds: the
\* same seed and shard_size, the search's output_value as candidate
VerifyCallsOf(held) ==
    {<<Task("object", "other", c.task.seed, c.task.shard_size, "verify",
            "verify", c.reply.output_value, None), None>> :
        c \in {x \in held : x.reply.kind = "result" /\ x.task.phase = "search"}}

CallSearch == Call(SearchCalls)

CallVerifyOfResult == Call(VerifyCallsOf(seen))

\* the search returns: the caller holds its result (and only this one)
ReturnSearch ==
    /\ proc = "HashSearch"
    /\ PopFrame
    /\ seen' = {[task |-> task, answer |-> answer, reply |-> reply]}
    /\ UNCHANGED <<gens, idvars>>

\* the verification returns: the held result is used up
ReturnVerify ==
    /\ proc = "VerifyCandidate"
    /\ PopFrame
    /\ seen' = {}
    /\ UNCHANGED <<gens, idvars>>

NextTrip == \/ CallSearch
            \/ SearchTry
            \/ SearchExhausted
            \/ ReturnSearch
            \/ CallVerifyOfResult
            \/ ReturnVerify

SpecTrip == Init /\ [][NextTrip]_vars

---------------------------------------------------------------------------
(* Identity and the coordinator tools *)

\* interface Identity; the key pair is one value (publicKeyHex is derived
\* from secretKeyHex)
Identity(keys, agentId, name) == [keys |-> keys, agentId |-> agentId, name |-> name]

\* key pairs generateSecretKey may produce
KeyPairs == {"K1", "K2"}

\* agent_id values of an /enlist response: null, absent (undefined), "", ids
AgentIds == {"null", "undefined", "", "A1", "A2"}

\* the name argument of swarm_enlist
Names == {"n1", "n2"}

\* !identity.agentId
NotEnlisted(id) == id.agentId \in {"null", "undefined", ""}

\* the identity loadOrCreateIdentity makes when there is no file
NewIdentity(keys) == Identity(keys, "null", "null")

\* a load that does not write the identity it creates
StoredAfterLoad_NotWritten(file, fresh) == file

\* loadOrCreateIdentity: the file it leaves
StoredAfterLoad(file, fresh) == IF file = None THEN Some(fresh) ELSE file

\* loadOrCreateIdentity: the identity it returns
loadOrCreateIdentity(file, fresh) == IF file = None THEN fresh ELSE file[1]

\* saveIdentity: the file it leaves
saveIdentity(id) == Some(id)

\* what api("/enlist") may give: ok true or false with data an object (with
\* or without agent_id) or null, or a rejected fetch
Responses ==
    {[ok |-> o, data |-> "object", agent_id |-> a] : o \in BOOLEAN, a \in AgentIds}
    \cup {[ok |-> o, data |-> "null", agent_id |-> "undefined"] : o \in BOOLEAN}
    \cup {[ok |-> FALSE, data |-> "rejected", agent_id |-> "undefined"]}

\* swarm_enlist up to its await: load or create the identity, sign the
\* event, send the request
EnlistStart ==
    /\ Cardinality(pending) < MaxPending
    /\ \E nm \in Names, k \in KeyPairs :
         /\ identityFile' = StoredAfterLoad(identityFile, NewIdentity(k))
         /\ pending' = pending \cup
               {[name |-> nm,
                 identity |-> loadOrCreateIdentity(identityFile, NewIdentity(k))]}
    /\ wire' = Wire("swarm_enlist", TRUE, Some("/enlist"), "waiting", FALSE)
    /\ UNCHANGED <<pc, task, answer, proc, n, nonce, h, i, inside, rng, reply, gens, seen>>

\* swarm_enlist after its await: if (ok) { agentId, name set; saveIdentity }
\* (data.agent_id of a null data throws before anything is saved)
EnlistFinish ==
    /\ \E p \in pending, r \in Responses :
         /\ pending' = pending \ {p}
         /\ IF r.ok /\ r.data = "object"
            THEN identityFile' = saveIdentity([p.identity EXCEPT
                                                 !.agentId = r.agent_id,
                                                 !.name = p.name])
            ELSE UNCHANGED identityFile
         /\ wire' = Wire("enlist_response", FALSE, None,
                         IF r.data = "rejected" \/ (r.ok /\ r.data = "null")
                         THEN "throw" ELSE "data",
                         r.ok)
    /\ UNCHANGED <<pc, task, answer, proc, n, nonce, h, i, inside, rng, reply, gens, seen>>

\* swarm_get_work / swarm_submit / swarm_propose up to their await: load or
\* create the identity, answer at once when not enlisted, else (sign and)
\* send the request. What follows the await changes no state.
GatedTool(tool, signs, path) ==
    /\ \E k \in KeyPairs :
         /\ identityFile' = StoredAfterLoad(identityFile, NewIdentity(k))
         /\ wire' = IF NotEnlisted(loadOrCreateIdentity(identityFile, NewIdentity(k)))
                    THEN Wire(tool, FALSE, None, "not_enlisted", FALSE)
                    ELSE Wire(tool, signs, Some(path), "data", FALSE)
    /\ UNCHANGED <<pc, task, answer, proc, n, nonce, h, i, inside, rng, reply, gens, seen, pending>>

SwarmGetWork == GatedTool("swarm_get_work", FALSE, "/work")

SwarmSubmit == GatedTool("swarm_submit", TRUE, "/submit")

SwarmPropose == GatedTool("swarm_propose", TRUE, "/propose")

\* swarm_stats and swarm_leaderboard: a request, no identity
PublicQuery ==
    /\ \E t \in {"stats", "leaderboard"} :
         wire' = Wire(t, FALSE, Some(t), "data", FALSE)
    /\ UNCHANGED <<pc, task, answer, proc, n, nonce, h, i, inside, rng, reply, gens, seen, identityFile, pending>>

NextId == \/ EnlistStart
          \/ EnlistFinish
          \/ SwarmGetWork
          \/ SwarmSubmit
          \/ SwarmPropose
          \/ PublicQuery

\* tool calls in any order; the handlers of swarm_enlist interleave at
\* their await
SpecId == Init /\ [][NextId]_vars

---------------------------------------------------------------------------
(* Properties *)

\* the call in progress has reached the given processor's end
Ended(p) == pc = "done" /\ proc = p

\* clamp(floor(log2(shard_size + 1) / 4), 2, 5), by its thresholds
ClampedPrefixLen(shard) ==
    IF shard + 1 >= 16^5 THEN 5
    ELSE IF shard + 1 >= 16^4 THEN 4
    ELSE IF shard + 1 >= 16^3 THEN 3
    ELSE 2

RECURSIVE HashTimes(_, _)
\* hash applied k times to s
HashTimes(s, k) == IF k = 0 THEN s ELSE sha256hex(HashTimes(s, k - 1))

\* C1: processTask selects the processor of the first matching rule, in the
\* order (1) verify+search, (2) verify+verify with a non-empty candidate,
\* (3) vote+produce, (4) vote+judge with responses, (5) numeric_tolerance,
\* (6) fft/spectral, (7) monte_carlo, (8) sha_chain, (9) SHA chain; a task
\* that misses rules 1-4 is routed by rules 5-9 alone.
C1_FirstMatchingRule ==
    LET m  == task.consensus_mode
        ph == task.phase
        ty == task.task_type
        r1 == m = "verify" /\ ph = "search"
        r2 == m = "verify" /\ ph = "verify" /\ task.candidate # None
              /\ task.candidate[1] # <<>>
        r3 == m = "vote" /\ ph = "produce"
        r4 == m = "vote" /\ ph = "judge" /\ task.responses # None
        r5 == m = "numeric_tolerance"
        r6 == ty \in {"fft", "spectral"}
        r7 == ty = "monte_carlo"
        byType == IF r5 THEN "Simulation" ELSE IF r6 THEN "FFT"
                  ELSE IF r7 THEN "MonteCarlo" ELSE "ShaChain"
    IN  proc # "none" =>
          /\ r1 => proc = "HashSearch"
          /\ r2 => proc = "VerifyCandidate"
          /\ r3 => proc = "SignalClassify"
          /\ r4 => proc = "JudgeResponses"
          /\ ~(r1 \/ r2 \/ r3 \/ r4) => proc = byType

\* C1 witness: verify+search with task_type monte_carlo, seed "s",
\* shard_size 16 has been routed to Hash search
C1_Witness ==
    /\ task.consensus_mode = "verify" /\ task.phase = "search"
    /\ task.task_type = "monte_carlo"
    /\ task.seed = Some(<<115>>) /\ task.shard_size = 16
    /\ proc = "HashSearch"

\* C2: a task descriptor that parses as JSON never makes swarm_process throw
\* and never gets the 'Invalid task JSON.' answer; a descriptor that does not
\* parse gets that answer and runs no processor.
C2_NoExceptionOnParsedJson ==
    pc = "done" =>
      IF task.json = "invalid"
      THEN reply.kind = "invalid_json" /\ proc = "none"
      ELSE reply.kind \notin {"throw", "invalid_json"}

\* C3: the Monte Carlo processor with shard_size = 0 fails explicitly: it
\* returns no output_hash.
C3_MonteCarloZeroFails ==
    (Ended("MonteCarlo") /\ task.shard_size = 0) =>
      (reply.kind # "result" /\ reply.output_hash = None)

\* C4 as claimed: the SHA chain with shard_size = 0 returns hash(seed), and
\* in general hash applied min(shard_size, cap) times to the seed.
C4_ZeroGivesHashOfSeed ==
    (Ended("ShaChain") /\ task.seed # None) =>
      /\ task.shard_size = 0 => reply.output_hash = Some(sha256hex(task.seed[1]))
      /\ reply.output_hash =
           Some(HashTimes(task.seed[1], Min(task.shard_size, RoundCap)))

\* C4 amended: the SHA chain returns hash applied exactly
\* min(shard_size, cap) times to the seed; with shard_size = 0 that is the
\* seed itself, unhashed. While it runs, h is hash applied i times.
C4_ChainAppliesMinRounds ==
    (proc = "ShaChain" /\ task.seed # None) =>
      /\ i <= Min(task.shard_size, RoundCap)
      /\ h = Some(HashTimes(task.seed[1], i))
      /\ pc = "done" =>
           /\ i = Min(task.shard_size, RoundCap)
           /\ reply = Result(Some(HashTimes(task.seed[1], i)), None)
           /\ task.shard_size = 0 => reply.output_hash = task.seed

\* C4 witness: a chain over shard_size = 0 has returned its seed
C4_Witness ==
    /\ Ended("ShaChain") /\ task.seed # None /\ task.shard_size = 0
    /\ reply.output_hash = task.seed

IsPowerOfTwo(k) == \E e \in 0..30 : k = 2^e

\* C5: the length loop computes the smallest power of two >= shard_size
\* (1 for shard_size <= 1): its n is always a power of two whose half is
\* below shard_size, and at the loop's exit n >= shard_size.
C5_SmallestPowerOfTwo ==
    (UsesLength(proc) /\ pc \in {"length", "shift", "done"}) =>
      /\ IsPowerOfTwo(n)
      /\ n = 1 \/ n \div 2 < task.shard_size
      /\ pc = "done" => n >= task.shard_size

\* C6: every processor invocation terminates: the hash search tries at most
\* ceiling + 1 nonces, the chain runs at most cap rounds, and every loop
\* reaches its exit.
C6_EveryProcessorTerminates ==
    /\ [](nonce <= NonceCeiling + 1 /\ (pc = "chain" => i <= RoundCap))
    /\ (pc \in {"length", "shift", "search", "chain", "mc"}) ~> (pc = "done")

\* C7: Hash search returns h = hash(seed + ":" + nonce) for the smallest
\* nonce in 0..ceiling whose h starts with the first prefixLen characters of
\* hash(seed), as output_value, with output_hash = hash(h); with no such
\* nonce it returns hash("NOTFOUND") and "NOTFOUND". No nonce above the
\* ceiling is tried.
C7_SmallestMatchingNonce ==
    (proc = "HashSearch" /\ task.seed # None) =>
      LET seed   == task.seed[1]
          prefix == SubSeq(sha256hex(seed), 1, ClampedPrefixLen(task.shard_size))
          digest(k) == sha256hex(seed \o <<58>> \o ToDecimal(k))
          hits   == {k \in 0..NonceCeiling :
                        SubSeq(digest(k), 1, Len(prefix)) = prefix}
      IN  /\ pc = "search" => nonce <= NonceCeiling + 1
          /\ pc = "done" =>
               IF hits = {}
               THEN reply = Result(Some(sha256hex(NOTFOUND)), Some(NOTFOUND))
               ELSE LET k == CHOOSE x \in hits : \A y \in hits : x <= y
                    IN  /\ nonce = k
                        /\ reply = Result(Some(sha256hex(digest(k))), Some(digest(k)))

\* C7 witness: a search has returned the digest of the last nonce allowed
C7_Witness ==
    /\ Ended("HashSearch") /\ nonce = NonceCeiling
    /\ reply.kind = "result" /\ reply.output_value # Some(NOTFOUND)

\* C8: Response judging over an array of responses: an empty array gives the
\* own classification hash and "0"; otherwise the lowest index whose
\* output_value is the own label, or 0 when none is, gives that response's
\* output_hash and the index in decimal.
C8_FirstMatchingResponse ==
    (Ended("JudgeResponses") /\ task.seed # None /\ task.responses[1].arr
       /\ \A k \in 1..Len(task.responses[1].items) :
             task.responses[1].items[k] # None) =>
      LET items == task.responses[1].items
          label == Classify(task.seed[1], n)
          hits  == {k \in 1..Len(items) : items[k][1].output_value = Some(label)}
          best  == IF hits = {} THEN 1
                   ELSE CHOOSE x \in hits : \A y \in hits : x <= y
      IN  IF items = <<>>
          THEN reply = Result(Some(sha256hex(label)), Some(ZERO))
          ELSE reply = Result(Some(items[best][1].output_hash),
                              Some(ToDecimal(best - 1)))

\* C8 witness: two responses, the first with another label than the own one,
\* the second with the own label, and index 1 selected with its hash
C8_Witness ==
    /\ Ended("JudgeResponses") /\ task.seed # None
    /\ task.responses[1].arr /\ Len(task.responses[1].items) = 2
    /\ task.responses[1].items[1] # None /\ task.responses[1].items[2] # None
    /\ task.responses[1].items[1][1].output_value
          \notin {None, Some(Classify(task.seed[1], n))}
    /\ task.responses[1].items[2][1].output_value = Some(Classify(task.seed[1], n))
    /\ reply = Result(Some(<<51>>), Some(<<49>>))

RECURSIVE StateAfter(_, _)
\* the state of a generator seeded with s after k calls
StateAfter(s, k) == IF k = 0 THEN xorshift128plus(s)
                    ELSE RngStep(StateAfter(s, k - 1))

\* C9: no state is retained between calls: a call's answer is the answer
\* every earlier call with the same task and answer argument got, whatever
\* ran before or between; a generator's state and output depend only on its
\* own seed and the number of its own calls; a call does not modify its task.
C9_NoStateBetweenCalls ==
    /\ [](/\ pc = "done" =>
               \A c \in seen :
                  (c.task = task /\ c.answer = answer) => c.reply = reply
          /\ \A g \in GenIds :
               gens[g].seed # None =>
                 /\ gens[g].st = StateAfter(gens[g].seed[1], gens[g].count)
                 /\ gens[g].count > 0 => gens[g].out = RngOut(gens[g].st))
    /\ [][(pc # "idle" /\ pc' # "idle") => task' = task]_vars

\* C9 witness: a task is answered a second time while two generators with
\* different seeds have both been stepped
C9_Witness ==
    /\ pc = "done"
    /\ \E c \in seen : c.task = task /\ c.answer = answer
    /\ gens[1].count > 0 /\ gens[2].count > 0
    /\ gens[1].seed # gens[2].seed

\* C10: Candidate verification answers "valid" with hash(candidate) exactly
\* when the candidate is non-empty and starts with the prefix Hash search
\* computes for the same seed and shard_size (the first
\* clamp(floor(log2(shard_size + 1) / 4), 2, 5) characters of hash(seed)),
\* and "invalid" with hash("INVALID:" + candidate) otherwise.
C10_ValidIffPrefix ==
    (Ended("VerifyCandidate") /\ task.seed # None) =>
      LET cand   == task.candidate[1]
          prefix == SearchPrefix(task.seed[1], task.shard_size)
      IN  /\ prefix = SubSeq(sha256hex(task.seed[1]), 1,
                             ClampedPrefixLen(task.shard_size))
          /\ IF cand # <<>> /\ Len(cand) >= Len(prefix)
                /\ SubSeq(cand, 1, Len(prefix)) = prefix
             THEN reply = Result(Some(sha256hex(cand)), Some(VALID))
             ELSE reply = Result(Some(sha256hex(INVALID_ \o cand)), Some(INVALID))

\* C10 witness: a candidate has been found valid against a 5-character prefix
C10_Witness ==
    /\ Ended("VerifyCandidate") /\ task.seed # None
    /\ ClampedPrefixLen(task.shard_size) = 5
    /\ reply.output_value = Some(VALID)

---------------------------------------------------------------------------
(* The recurrence over unsigned 32-bit words *)

\* a word's bitwise exclusive or, halves in 0..65535
WordXor(x, y) == Num(Xor16(x.hi, y.hi, 16), Xor16(x.lo, y.lo, 16))

\* (x << 23) mod 2^32
WordShl23(x) == Num((x.lo * 128) % W16, 0)

\* x >>> 17 and x >>> 26 on a word
WordShr17(x) == Num(0, x.hi \div 2)

WordShr26(x) == Num(0, x.hi \div 1024)

\* x ^= x<<23; x ^= x>>>17; x ^= y; x ^= y>>>26; new s0 = y, new s1 = x
WordStep(u) ==
    The({The({The({[s0 |-> w.s1,
                    s1 |-> WordXor(WordXor(x2, w.s1), WordShr26(w.s1))] :
                   x2 \in {WordXor(x1, WordShr17(x1))}}) :
              x1 \in {WordXor(w.s0, WordShl23(w.s0))}}) :
         w \in {u}})

\* (s0 + s1) mod 2^32
WordOut(u) ==
    The({Num((u.s0.hi + u.s1.hi + (s \div W16)) % W16, s % W16) :
            s \in {u.s0.lo + u.s1.lo}})

RECURSIVE PlainFold(_, _, _)
\* s = s * m + code over a seed short enough for the integers at hand
PlainFold(s, m, seed) == IF seed = <<>> THEN s
                         ELSE PlainFold(s * m + Head(seed), m, Tail(seed))

RECURSIVE WordsAfter(_, _)
\* the words after k steps from a seeded pair
WordsAfter(u, k) == IF k = 0 THEN u ELSE WordStep(WordsAfter(u, k - 1))

\* the value of a Number with small halves
Value(x) == x.hi * W16 + x.lo

\* C11: the generator of xorshift128plus, with the code's signed 32-bit
\* operators, gives the output sequence of the recurrence over unsigned
\* 32-bit words: after seeding each accumulator is the fold
\* s = (s * m + code) mod 2^32 with 0 forced to 1, so neither is 0; after
\* every step the closure's s0, s1 are, as unsigned words, the words of the
\* recurrence, and the value returned is (new_s0 + new_s1) mod 2^32, in
\* 0..2^32-1.
C11_SignedMatchesUnsigned ==
    gens[1].seed # None =>
      LET seed  == gens[1].seed[1]
          start == xorshift128plus(seed)
          words == WordsAfter(start, gens[1].count)
      IN  /\ start.s0 # Num(0, 0) /\ start.s1 # Num(0, 0)
          /\ start.s0.hi \in 0..(W16 - 1) /\ start.s1.hi \in 0..(W16 - 1)
          /\ Len(seed) <= 2 =>
                /\ Value(start.s0) = Max(1, PlainFold(0, 31, seed))
                /\ Value(start.s1) = Max(1, PlainFold(0, 37, seed))
          /\ ToUint32(gens[1].st.s0) = words.s0
          /\ ToUint32(gens[1].st.s1) = words.s1
          /\ gens[1].count > 0 =>
                /\ gens[1].out = WordOut(words)
                /\ gens[1].out.hi \in 0..(W16 - 1)
                /\ gens[1].out.lo \in 0..(W16 - 1)

\* C11 witness: after two or more steps the closure holds negative Numbers
\* in both s0 and s1 (the signed and the unsigned reading differ)
C11_Witness ==
    /\ gens[1].seed # None /\ gens[1].count >= 2
    /\ gens[1].st.s0.hi < 0 /\ gens[1].st.s1.hi < 0

\* C12: search/verify round trip: when Hash search returned an output_value
\* other than "NOTFOUND", Candidate verification with the same seed and
\* shard_size and that value as candidate answers "valid" with the search's
\* output_hash; when it returned "NOTFOUND", verification of "NOTFOUND"
\* answers "invalid".
C12_SearchVerifyRoundTrip ==
    Ended("VerifyCandidate") =>
      \A c \in seen :
         (/\ c.task.phase = "search"
          /\ c.task.seed = task.seed /\ c.task.shard_size = task.shard_size
          /\ c.reply.output_value = task.candidate) =>
           IF task.candidate # Some(NOTFOUND)
           THEN reply = Result(c.reply.output_hash, Some(VALID))
           ELSE reply.kind = "result" /\ reply.output_value = Some(INVALID)

\* C12 witness: the digest a search found under a 5-character prefix has
\* been verified
C12_Witness ==
    /\ Ended("VerifyCandidate")
    /\ ClampedPrefixLen(task.shard_size) = 5
    /\ \E c \in seen : /\ c.task.phase = "search"
                       /\ c.reply.output_value = task.candidate
                       /\ c.reply.output_value # Some(NOTFOUND)
                       /\ reply.output_hash = c.reply.output_hash

\* the stored identity's agentId and name (null while there is no file: the
\* identity a load would create)
StoredAgentId == IF identityFile = None THEN "null" ELSE identityFile[1].agentId

StoredName == IF identityFile = None THEN "null" ELSE identityFile[1].name

GatedTools == {"swarm_get_work", "swarm_submit", "swarm_propose"}

\* C13: enlistment gating over any sequence of tool calls: a call of
\* swarm_get_work, swarm_submit or swarm_propose made while the stored
\* agentId is null signs nothing, requests nothing and answers 'Not enlisted
\* yet'; agentId and name change only in swarm_enlist's handling of an ok
\* response; the key pair of an existing identity file never changes.
C13_EnlistmentGating ==
    /\ [][(StoredAgentId = "null" /\ wire'.tool \in GatedTools) =>
            (/\ ~wire'.signed
             /\ wire'.request = None
             /\ wire'.text = "not_enlisted")]_vars
    /\ [][(StoredAgentId' # StoredAgentId \/ StoredName' # StoredName) =>
            (wire'.tool = "enlist_response" /\ wire'.ok)]_vars
    /\ [][identityFile # None =>
            (/\ identityFile' # None
             /\ identityFile'[1].keys = identityFile[1].keys)]_vars

\* C13 witness: swarm_submit has been refused with the identity file in
\* place and its agentId null, while a swarm_enlist waits for its response
C13_Witness ==
    /\ wire.tool = "swarm_submit" /\ wire.text = "not_enlisted"
    /\ identityFile # None /\ identityFile[1].agentId = "null"
    /\ Cardinality(pending) = 1

=============================================================================
